---- MODULE Spec2Model ----
(***************************************************************************)
(* Admission control of the sign-up flows: the singleUseCode table and its *)
(* atomic claim, the gated sign-up handler that claims a code before it    *)
(* calls auth.api.signUpEmail, the interestedEmails (waitlist) table with  *)
(* its existence check and insert, and the withRetry wrapper of the        *)
(* database access layer.                                                  *)
(***************************************************************************)
EXTENDS Integers, Sequences, FiniteSets, TLC

(* ------------------------------ bounds -------------------------------- *)

\* concurrent gated sign-up requests
NumRequests == 2
\* gated sign-up forms submitted in all (first tries and retries)
MaxSubmits == 3

\* concurrent waitlist (interest sign-up) requests
NumJoiners == 2
\* waitlist forms submitted in all
MaxJoinSubmits == 3
\* concurrent withRetry calls
NumCallers == 2
\* withRetry calls started in all
MaxCalls == 4
\* the retry count of withRetry: invocations of the operation per call
MaxAttempts == 3
\* withRetry calls started in all where termination is checked
MaxFairCalls == 2
\* sign-up forms, gated and interest together, submitted in a run with both
MaxAdmissions == 2

(* ------------------------------ values -------------------------------- *)

\* email = NULL in a singleUseCode row: the code is unclaimed
NULL == "NULL"
\* the codes provisioned in singleUseCode
Codes == {"code-1", "code-2"}
\* a well-formed code that has no row
UnknownCode == "does-not-exist"
CodeInputs == Codes \cup {UnknownCode}
Emails == {"ann@example.com", "bob@example.com"}
Requests == 1..NumRequests
Joiners == 1..NumJoiners
Callers == 1..NumCallers

\* the values of SIGN_UP_MODE
OPEN_SIGN_UP == "OPEN_SIGN_UP"
GATED_SIGN_UP == "GATED_SIGN_UP"
INTEREST_SIGN_UP == "INTEREST_SIGN_UP"
BOTH_SIGN_UP == "BOTH_SIGN_UP"
NO_SIGN_UP == "NO_SIGN_UP"
SignUpModes == {OPEN_SIGN_UP, GATED_SIGN_UP, INTEREST_SIGN_UP, BOTH_SIGN_UP, NO_SIGN_UP}
\* the paths the sign-up forms post to: PATHS.AUTH.SIGN_UP, PATHS.AUTH.INTEREST_SIGN_UP
SignUpPaths == {"SIGN_UP", "INTEREST_SIGN_UP"}

\* PATHS of the pages
PagePaths == {"ROOT", "PRIVATE", "SIGN_IN", "SIGN_UP", "SIGN_OUT"}
\* MESSAGES.ALREADY_SIGNED_IN
ALREADY_SIGNED_IN == "ALREADY_SIGNED_IN"
\* the error text signedInAccess sends along with its redirect
SIGN_IN_REQUIRED == "SIGN_IN_REQUIRED"
\* the message of the interest sign-up handler's redirect to sign-in
INTEREST_RECORDED == "INTEREST_RECORDED"
\* the message of a gated sign-up whose claim failed
INVALID_CODE == "invalid or expired code"
\* a text a page builder hands to useLayout as extraMessage
ExtraMessage == "extra message"
\* COOKIES.MESSAGE_FOUND, COOKIES.ERROR_FOUND
MESSAGE_FOUND == "MESSAGE_FOUND"
ERROR_FOUND == "ERROR_FOUND"

JoinedWaitlist == "JoinedWaitlist"
AlreadyOnWaitlist == "AlreadyOnWaitlist"

Claimed == "Claimed"
AlreadyClaimedOrInvalid == "AlreadyClaimedOrInvalid"
StorageFailure == "Failure"
None == "none"
\* the email of a request slot that holds no request
NoEmail == "none"

VARIABLES
    singleUseCode,  \* the table: code -> email (NULL when unclaimed)
    users,          \* emails that have an account (auth.api.signUpEmail succeeded)
    pc,             \* per request slot: "idle", "claim", "signUp", "done"
    reqCode,        \* per request: the code of the submitted form
    reqEmail,       \* per request: the email of the submitted form
    claimResult,    \* per request: what its claim returned
    signUpResult,   \* per request: "none", "ok", "failed"
    signUpMessage,  \* per request: the text its response shows for a failed sign-up
    submits,        \* gated sign-up forms submitted so far
    wins,           \* per code input: claims that returned Claimed
    losses,         \* per code input: claims that returned AlreadyClaimedOrInvalid
    winner,         \* per code input: the claimant of the claim that returned Claimed
    signUpCalls,    \* per code input: signUpEmail calls made on behalf of the code
    burned,         \* per code input: a signUpEmail after a successful claim failed
    interestedEmails, \* the waitlist table: a sequence of rows, each an email
    jpc,            \* per waitlist request slot: "idle", "check", "insert", "done"
    joinEmail,      \* per waitlist request: the email of the submitted form
    joinResult,     \* per waitlist request: what the handler ended with
    joinSubmits,    \* waitlist forms submitted so far
    joined,         \* per email: requests that ended JoinedWaitlist
    already,        \* per email: requests that ended AlreadyOnWaitlist
    joinFailed,     \* per email: requests that ended with a database error
    insertOutcome,  \* per waitlist request: "none", "inserted", "unique", "other"
    rpc,            \* per withRetry call: "idle", "invoke", "backoff", "returned", "threw"
    wrapped,        \* per withRetry call: the operation wraps its query in toResult
    attempts,       \* per withRetry call: invocations of the operation so far
    returned,       \* per withRetry call: the kind of the value handed to the caller
    calls,          \* withRetry calls started so far
    environment,    \* the build: "development" or "production"
    delays,         \* per withRetry call: its latest two waits, in ms
    leading,        \* per withRetry call: transient failures before any other outcome
    followed,       \* per withRetry call: the first outcome that was no transient failure
    signUpMode,     \* SIGN_UP_MODE, read once when the routes are registered
    notFound,       \* the sign-up paths that were requested and answered 404
    abandons,       \* requests whose client went away before the response
    abandonedClaim, \* per code: the claimant whose request was abandoned after its claim
    abandonedJoin,  \* the emails whose request was abandoned after its insert
    session,        \* the browser holds the cookie of a live Better Auth session
    messageCookie,  \* the browser's MESSAGE_FOUND cookie: a text, or "none"
    errorCookie,    \* the browser's ERROR_FOUND cookie: a text, or "none"
    request,        \* the request the browser made last
    status,         \* the last response: "none", "render", "redirect", "303"
    target,         \* the page the last response rendered, or its Location
    shownMessage,   \* the success alert of the page rendered last, or "none"
    shownError,     \* the error alert of the page rendered last, or "none"
    removed,        \* the cookies whose removal the last response issued
    signedOut       \* a sign-out completed and nobody has signed in since

gatedVars == <<singleUseCode, users, pc, reqCode, reqEmail, claimResult,
               signUpResult, signUpMessage, submits, wins, losses, winner,
               signUpCalls, burned>>

waitVars == <<interestedEmails, jpc, joinEmail, joinResult, joinSubmits,
              joined, already, joinFailed, insertOutcome>>

retryVars == <<rpc, wrapped, attempts, returned, calls, leading, followed,
               environment, delays>>

admissionVars == <<signUpMode, notFound, abandons, abandonedClaim, abandonedJoin>>

pageVars == <<session, messageCookie, errorCookie, request, status, target,
              shownMessage, shownError, removed, signedOut>>

vars == <<gatedVars, waitVars, retryVars, admissionVars, pageVars>>

(* ----------------------- singleUseCode: the claim ---------------------- *)

\* WHERE code = ? (the null test left out)
RowsMatchingAnyOwner(db, code) ==
    IF code \in DOMAIN db THEN {code} ELSE {}

\* WHERE code = ? AND email IS NULL
RowsMatching(db, code) ==
    IF code \in DOMAIN db /\ db[code] = NULL THEN {code} ELSE {}

\* UPDATE singleUseCode SET email = ? WHERE code = ? (a claimed row is rewritten)
UpdateOverwrites(db, code, email) ==
    [c \in DOMAIN db |-> IF c = code THEN email ELSE db[c]]

\* rowsAffected counts the row of the code whoever holds it
RowsAffectedOfCode(db, code) == IF code \in DOMAIN db THEN 1 ELSE 0

\* UPDATE singleUseCode SET email = ? WHERE email IS NULL
UpdateAllUnclaimed(db, code, email) ==
    [c \in DOMAIN db |-> IF db[c] = NULL THEN email ELSE db[c]]

\* UPDATE singleUseCode SET email = ? WHERE code = ? AND email IS NULL
UpdateSingleUseCode(db, code, email) ==
    [c \in DOMAIN db |-> IF c \in RowsMatching(db, code) THEN email ELSE db[c]]

RowsAffected(db, code) == Cardinality(RowsMatching(db, code))

\* true when the code has a row (a SELECT-style validation of the code)
claimValidatesOnly(db, code, email) == code \in DOMAIN db

\* true also when the row already holds this email
claimOrOwns(db, code, email) ==
    RowsAffected(db, code) = 1 \/ (code \in DOMAIN db /\ db[code] = email)

\* true if rowsAffected === 1 (this request won the race), false if 0
claimSingleUseCode(db, code, email) == RowsAffected(db, code) = 1

ClaimOutcome(won) == IF won THEN Claimed ELSE AlreadyClaimedOrInvalid

(* ---------------------- the gated sign-up handler ---------------------- *)

\* the handler goes on to signUpEmail whatever the claim returned
ProceedAlways(outcome) == TRUE

\* only a claim that returned false rejects the request
ProceedUnlessRejected(outcome) == outcome # AlreadyClaimedOrInvalid

\* if the claim fails the request is rejected; signUpEmail is called otherwise
ProceedToSignUp(outcome) == outcome = Claimed

\* the claim is rolled back when signUpEmail fails
ReleaseOnSignUpFailure(db, code) ==
    [c \in DOMAIN db |-> IF c = code THEN NULL ELSE db[c]]

\* every sign-up route is registered whatever the mode
RouteHandlerAnyMode(mode, path) == IF path = "SIGN_UP" THEN "gated" ELSE "interest"

\* route registration by SIGN_UP_MODE: the handler a sign-up path has in a
\* mode, "none" when the mode registers no route for the path
RouteHandler(mode, path) ==
    CASE mode = OPEN_SIGN_UP /\ path = "SIGN_UP" -> "open"
      [] mode = GATED_SIGN_UP /\ path = "SIGN_UP" -> "gated"
      [] mode = INTEREST_SIGN_UP /\ path = "INTEREST_SIGN_UP" -> "interest"
      [] mode = BOTH_SIGN_UP /\ path = "SIGN_UP" -> "gated"
      [] mode = BOTH_SIGN_UP /\ path = "INTEREST_SIGN_UP" -> "interest"
      [] OTHER -> "none"

\* burned codes: a failed signUpEmail leaves the code consumed
AfterSignUpFailure(db, code) == db

InitData ==
    /\ singleUseCode = [c \in Codes |-> NULL]
    /\ users = {}
    /\ pc = [r \in Requests |-> "idle"]
    /\ reqCode = [r \in Requests |-> UnknownCode]
    /\ reqEmail = [r \in Requests |-> NoEmail]
    /\ claimResult = [r \in Requests |-> None]
    /\ signUpResult = [r \in Requests |-> None]
    /\ signUpMessage = [r \in Requests |-> None]
    /\ submits = 0
    /\ wins = [c \in CodeInputs |-> 0]
    /\ losses = [c \in CodeInputs |-> 0]
    /\ winner = [c \in CodeInputs |-> NULL]
    /\ signUpCalls = [c \in CodeInputs |-> 0]
    /\ burned = [c \in CodeInputs |-> FALSE]
    /\ interestedEmails = <<>>
    /\ jpc = [j \in Joiners |-> "idle"]
    /\ joinEmail = [j \in Joiners |-> NoEmail]
    /\ joinResult = [j \in Joiners |-> None]
    /\ joinSubmits = 0
    /\ joined = [e \in Emails |-> 0]
    /\ already = [e \in Emails |-> 0]
    /\ joinFailed = [e \in Emails |-> 0]
    /\ insertOutcome = [j \in Joiners |-> None]
    /\ rpc = [w \in Callers |-> "idle"]
    /\ wrapped = [w \in Callers |-> FALSE]
    /\ attempts = [w \in Callers |-> 0]
    /\ returned = [w \in Callers |-> None]
    /\ calls = 0
    /\ leading = [w \in Callers |-> 0]
    /\ delays = [w \in Callers |-> <<>>]
    /\ followed = [w \in Callers |-> None]
    /\ notFound = {}
    /\ abandons = 0
    /\ abandonedClaim = [c \in Codes |-> NoEmail]
    /\ abandonedJoin = {}
    /\ session = FALSE
    /\ messageCookie = None
    /\ errorCookie = None
    /\ request = None
    /\ status = None
    /\ target = None
    /\ shownMessage = None
    /\ shownError = None
    /\ removed = {}
    /\ signedOut = FALSE

\* the deployment the sign-up pages in src are for: gated and interest forms
\* and the source as it stands, with the development settings
Init == InitData /\ signUpMode = BOTH_SIGN_UP /\ environment = "development"

\* a deployment in any of the sign-up modes
InitAdmission ==
    InitData /\ signUpMode \in SignUpModes /\ environment = "development"

\* POST of the gated sign-up form (a first try, or the user trying again)
SubmitGatedSignUp(r, code, email) ==
    /\ RouteHandler(signUpMode, "SIGN_UP") = "gated"
    /\ pc[r] = "idle"
    /\ submits < MaxSubmits
    /\ pc' = [pc EXCEPT ![r] = "claim"]
    /\ reqCode' = [reqCode EXCEPT ![r] = code]
    /\ reqEmail' = [reqEmail EXCEPT ![r] = email]
    /\ submits' = submits + 1
    /\ UNCHANGED <<singleUseCode, users, claimResult, signUpResult, signUpMessage,
                   wins, losses, winner, signUpCalls, burned>>
    /\ UNCHANGED <<waitVars, retryVars, admissionVars, pageVars>>

\* the handler's claimSingleUseCode call: one UPDATE statement, one step
ClaimCode(r) ==
    /\ pc[r] = "claim"
    /\ LET code == reqCode[r]
           email == reqEmail[r]
           outcome == ClaimOutcome(claimSingleUseCode(singleUseCode, code, email))
       IN /\ singleUseCode' = UpdateSingleUseCode(singleUseCode, code, email)
          /\ claimResult' = [claimResult EXCEPT ![r] = outcome]
          /\ wins' = [wins EXCEPT ![code] = IF outcome = Claimed THEN @ + 1 ELSE @]
          /\ losses' = [losses EXCEPT ![code] = IF outcome = Claimed THEN @ ELSE @ + 1]
          /\ winner' = [winner EXCEPT ![code] = IF outcome = Claimed THEN email ELSE @]
          /\ pc' = [pc EXCEPT ![r] = IF ProceedToSignUp(outcome) THEN "signUp" ELSE "done"]
    /\ UNCHANGED <<users, reqCode, reqEmail, signUpResult, signUpMessage, submits, signUpCalls, burned>>
    /\ UNCHANGED <<waitVars, retryVars, admissionVars, pageVars>>

\* the claim's database call fails before the UPDATE ran: nothing is written
ClaimFails(r) ==
    /\ pc[r] = "claim"
    /\ claimResult' = [claimResult EXCEPT ![r] = StorageFailure]
    /\ pc' = [pc EXCEPT ![r] = IF ProceedToSignUp(StorageFailure) THEN "signUp" ELSE "done"]
    /\ UNCHANGED <<singleUseCode, users, reqCode, reqEmail, signUpResult, signUpMessage, submits,
                   wins, losses, winner, signUpCalls, burned>>
    /\ UNCHANGED <<waitVars, retryVars, admissionVars, pageVars>>

\* auth.api.signUpEmail creates the account
SignUpEmailSucceeds(r) ==
    /\ pc[r] = "signUp"
    /\ reqEmail[r] \notin users
    /\ users' = users \cup {reqEmail[r]}
    /\ signUpResult' = [signUpResult EXCEPT ![r] = "ok"]
    /\ UNCHANGED signUpMessage
    /\ signUpCalls' = [signUpCalls EXCEPT ![reqCode[r]] = @ + 1]
    /\ pc' = [pc EXCEPT ![r] = "done"]
    /\ UNCHANGED <<singleUseCode, reqCode, reqEmail, claimResult, submits,
                   wins, losses, winner, burned>>
    /\ UNCHANGED <<waitVars, retryVars, admissionVars, pageVars>>

\* MESSAGES.REGISTRATION_GENERIC_ERROR
REGISTRATION_GENERIC_ERROR == "REGISTRATION_GENERIC_ERROR"

\* errorMessage of a failed auth response: texts of the auth library or the
\* database
RawErrors == {"User already exists", "D1_ERROR: no such table: user"}

\* handleSignUpApiError: the generic message, whatever was thrown
handleSignUpApiError(raw) == REGISTRATION_GENERIC_ERROR

\* handleSignUpResponseError: the raw errorMessage goes into the text
handleSignUpResponseError(raw) == "Registration failed: " \o raw

\* what the user is shown when auth.api.signUpEmail threw or answered with an
\* error response
SignUpFailureMessage(how, raw) ==
    IF how = "thrown" THEN handleSignUpApiError(raw)
    ELSE handleSignUpResponseError(raw)

\* auth.api.signUpEmail fails (duplicate email, auth or storage error)
SignUpEmailFails(r) ==
    /\ pc[r] = "signUp"
    /\ singleUseCode' = AfterSignUpFailure(singleUseCode, reqCode[r])
    /\ signUpResult' = [signUpResult EXCEPT ![r] = "failed"]
    /\ \E raw \in RawErrors, how \in {"thrown", "response"} :
           signUpMessage' = [signUpMessage EXCEPT ![r] = SignUpFailureMessage(how, raw)]
    /\ signUpCalls' = [signUpCalls EXCEPT ![reqCode[r]] = @ + 1]
    /\ burned' = [burned EXCEPT ![reqCode[r]] = @ \/ (claimResult[r] = Claimed)]
    /\ pc' = [pc EXCEPT ![r] = "done"]
    /\ UNCHANGED <<users, reqCode, reqEmail, claimResult, submits, wins, losses, winner>>
    /\ UNCHANGED <<waitVars, retryVars, admissionVars, pageVars>>

\* the handler's redirect is sent and the request is over
Respond(r) ==
    /\ pc[r] = "done"
    /\ pc' = [pc EXCEPT ![r] = "idle"]
    /\ reqCode' = [reqCode EXCEPT ![r] = UnknownCode]
    /\ reqEmail' = [reqEmail EXCEPT ![r] = NoEmail]
    /\ claimResult' = [claimResult EXCEPT ![r] = None]
    /\ signUpResult' = [signUpResult EXCEPT ![r] = None]
    /\ signUpMessage' = [signUpMessage EXCEPT ![r] = None]
    /\ UNCHANGED <<singleUseCode, users, submits, wins, losses, winner, signUpCalls, burned>>
    /\ UNCHANGED <<waitVars, retryVars, admissionVars, pageVars>>

Next ==
    \/ \E r \in Requests, code \in CodeInputs, email \in Emails :
           SubmitGatedSignUp(r, code, email)
    \/ \E r \in Requests : ClaimCode(r)
    \/ \E r \in Requests : SignUpEmailSucceeds(r)
    \/ \E r \in Requests : SignUpEmailFails(r)
    \/ \E r \in Requests : Respond(r)

Spec == Init /\ [][Next]_vars

NextFaulty ==
    \/ Next
    \/ \E r \in Requests : ClaimFails(r)

FaultySpec == Init /\ [][NextFaulty]_vars

\* the UPDATE commits and its reply is lost: the driver's error comes back
\* from toResult as a failure, which withRetry does not retry
ClaimCommitsThenFails(r) ==
    /\ pc[r] = "claim"
    /\ RowsAffected(singleUseCode, reqCode[r]) = 1
    /\ singleUseCode' = UpdateSingleUseCode(singleUseCode, reqCode[r], reqEmail[r])
    /\ claimResult' = [claimResult EXCEPT ![r] = StorageFailure]
    /\ pc' = [pc EXCEPT ![r] = IF ProceedToSignUp(StorageFailure) THEN "signUp" ELSE "done"]
    /\ UNCHANGED <<users, reqCode, reqEmail, signUpResult, signUpMessage, submits,
                   wins, losses, winner, signUpCalls, burned>>
    /\ UNCHANGED <<waitVars, retryVars, admissionVars, pageVars>>

\* the handler on a database whose replies can also be lost
NextLostReply ==
    \/ NextFaulty
    \/ \E r \in Requests : ClaimCommitsThenFails(r)

LostReplySpec == Init /\ [][NextLostReply]_vars

(* --------------------- interestedEmails: the waitlist ------------------- *)

RowsWithEmail(rows, email) == {i \in DOMAIN rows : rows[i] = email}

\* SELECT ... FROM interestedEmails WHERE email = ?
checkInterestedEmailExists(rows, email) == RowsWithEmail(rows, email) # {}

\* interestedEmails.email carries no unique index
NoUniqueIndex(rows, email) == FALSE

\* the unique constraint on interestedEmails.email rejects a second row
UniqueViolation(rows, email) == RowsWithEmail(rows, email) # {}

\* INSERT INTO interestedEmails (email) VALUES (?)
InsertInterestedEmail(rows, email) ==
    IF UniqueViolation(rows, email) THEN rows ELSE Append(rows, email)

\* addInterestedEmail: Result.ok when the row went in, Result.err when the
\* insert threw (toResult turns the exception into the error value)
addInterestedEmail(rows, email) ==
    IF UniqueViolation(rows, email) THEN StorageFailure ELSE JoinedWaitlist

\* POST of the interest sign-up form
SubmitInterestSignUp(j, email) ==
    /\ RouteHandler(signUpMode, "INTEREST_SIGN_UP") = "interest"
    /\ jpc[j] = "idle"
    /\ joinSubmits < MaxJoinSubmits
    /\ jpc' = [jpc EXCEPT ![j] = "check"]
    /\ joinEmail' = [joinEmail EXCEPT ![j] = email]
    /\ joinSubmits' = joinSubmits + 1
    /\ UNCHANGED <<interestedEmails, joinResult, joined, already, joinFailed,
                   insertOutcome>>
    /\ UNCHANGED <<gatedVars, retryVars, admissionVars, pageVars>>

\* the handler's existence check: the email is on the list already
CheckFindsEmail(j) ==
    /\ jpc[j] = "check"
    /\ checkInterestedEmailExists(interestedEmails, joinEmail[j])
    /\ joinResult' = [joinResult EXCEPT ![j] = AlreadyOnWaitlist]
    /\ already' = [already EXCEPT ![joinEmail[j]] = @ + 1]
    /\ jpc' = [jpc EXCEPT ![j] = "done"]
    /\ UNCHANGED <<interestedEmails, joinEmail, joinSubmits, joined, joinFailed,
                   insertOutcome>>
    /\ UNCHANGED <<gatedVars, retryVars, admissionVars, pageVars>>

\* the handler's existence check: no row, so the handler goes on to insert
CheckFindsNothing(j) ==
    /\ jpc[j] = "check"
    /\ ~checkInterestedEmailExists(interestedEmails, joinEmail[j])
    /\ jpc' = [jpc EXCEPT ![j] = "insert"]
    /\ UNCHANGED <<interestedEmails, joinEmail, joinResult, joinSubmits,
                   joined, already, joinFailed, insertOutcome>>
    /\ UNCHANGED <<gatedVars, retryVars, admissionVars, pageVars>>

\* the handler's addInterestedEmail call
AddInterestedEmail(j) ==
    /\ jpc[j] = "insert"
    /\ LET email == joinEmail[j]
           result == addInterestedEmail(interestedEmails, email)
       IN /\ interestedEmails' = InsertInterestedEmail(interestedEmails, email)
          /\ joinResult' = [joinResult EXCEPT ![j] = result]
          /\ joined' = [joined EXCEPT ![email] = IF result = JoinedWaitlist THEN @ + 1 ELSE @]
          /\ joinFailed' = [joinFailed EXCEPT ![email] =
                                IF result = JoinedWaitlist THEN @ ELSE @ + 1]
          /\ insertOutcome' = [insertOutcome EXCEPT ![j] =
                                   IF UniqueViolation(interestedEmails, email)
                                   THEN "unique" ELSE "inserted"]
    /\ jpc' = [jpc EXCEPT ![j] = "done"]
    /\ UNCHANGED <<joinEmail, joinSubmits, already>>
    /\ UNCHANGED <<gatedVars, retryVars, admissionVars, pageVars>>

\* the handler's addInterestedEmail call when the database fails for another
\* reason than the unique constraint: no row goes in, the result is Result.err
AddInterestedEmailFails(j) ==
    /\ jpc[j] = "insert"
    /\ joinResult' = [joinResult EXCEPT ![j] = StorageFailure]
    /\ joinFailed' = [joinFailed EXCEPT ![joinEmail[j]] = @ + 1]
    /\ insertOutcome' = [insertOutcome EXCEPT ![j] = "other"]
    /\ jpc' = [jpc EXCEPT ![j] = "done"]
    /\ UNCHANGED <<interestedEmails, joinEmail, joinSubmits, joined, already>>
    /\ UNCHANGED <<gatedVars, retryVars, admissionVars, pageVars>>

\* the handler's redirect is sent and the request is over
RespondInterest(j) ==
    /\ jpc[j] = "done"
    /\ jpc' = [jpc EXCEPT ![j] = "idle"]
    /\ joinEmail' = [joinEmail EXCEPT ![j] = NoEmail]
    /\ joinResult' = [joinResult EXCEPT ![j] = None]
    /\ insertOutcome' = [insertOutcome EXCEPT ![j] = None]
    /\ UNCHANGED <<interestedEmails, joinSubmits, joined, already, joinFailed>>
    /\ UNCHANGED <<gatedVars, retryVars, admissionVars, pageVars>>

NextWaitlist ==
    \/ \E j \in Joiners, email \in Emails : SubmitInterestSignUp(j, email)
    \/ \E j \in Joiners : CheckFindsEmail(j)
    \/ \E j \in Joiners : CheckFindsNothing(j)
    \/ \E j \in Joiners : AddInterestedEmail(j)
    \/ \E j \in Joiners : RespondInterest(j)

WaitlistSpec == Init /\ [][NextWaitlist]_vars

\* the waitlist handler on a database that can also fail
NextFaultyWaitlist ==
    \/ NextWaitlist
    \/ \E j \in Joiners : AddInterestedEmailFails(j)

FaultyWaitlistSpec == Init /\ [][NextFaultyWaitlist]_vars

(* ------------------------------ withRetry ------------------------------ *)

\* what one run of a database query can come to: a value, a business
\* outcome (no row affected), or an exception of the driver
QueryOutcomes == {"ok", "business", "transient", "permanent"}
QueryThrows(kind) == kind \in {"transient", "permanent"}

\* the operation as withRetry sees it: a value it returns or an error it throws
RawOperation(kind) ==
    [channel |-> IF QueryThrows(kind) THEN "throw" ELSE "return", kind |-> kind]

\* toResult: exception handling converts to Result types
toResult(kind) == [channel |-> "return", kind |-> kind]

\* the query is handed to withRetry without toResult around it
OperationThrows(isWrapped, kind) == RawOperation(kind)

\* the operation withRetry runs: the query, inside toResult or bare
Operation(isWrapped, kind) ==
    IF isWrapped THEN toResult(kind) ELSE RawOperation(kind)

\* the builds of the source: as it stands, and with its production toggles
Environments == {"development", "production"}

\* minTimeout of the retry options, in ms
DevMinTimeout == 20
ProdMinTimeout == 200

\* the production build keeps the relaxed timeout
MinTimeoutRelaxed(env) == DevMinTimeout

\* minTimeout: 20 is marked for removal in production, where it is 200
MinTimeout(env) == IF env = "production" THEN ProdMinTimeout ELSE DevMinTimeout

\* the backoff multiplier of the retry policy
BackoffFactor == 2

\* the retries a call has behind it once n attempts have failed but the last
Retries(n) == IF n = 0 THEN 0 ELSE n - 1

\* the wait after the n-th failed attempt of a call
Timeout(env, n) == MinTimeout(env) * BackoffFactor ^ Retries(n)

\* the latest two entries of a sequence
LatestTwo(seq) == IF Len(seq) <= 2 THEN seq ELSE Tail(seq)

\* the operation is run again after every throw, without a bound
RetryWhenThrown(out, attempt) == out.channel = "throw"

\* the attempt number is never advanced
SameAttempt(n) == n

\* async-retry counts the attempts of one call
NextAttempt(n) == n + 1

\* the operation is run again whenever it did not come to a value
RetryUnlessOk(out, attempt) == out.kind # "ok" /\ attempt < MaxAttempts

\* the operation is run again after every failure, thrown or returned
RetryOnFailure(out, attempt) ==
    out.kind \in {"transient", "permanent"} /\ attempt < MaxAttempts

\* async-retry runs the operation again only when it threw
ShouldRetry(out, attempt) == out.channel = "throw" /\ attempt < MaxAttempts

\* a data access function calls withRetry(operation)
CallWithRetry(w, isWrapped) ==
    /\ rpc[w] = "idle"
    /\ calls < MaxCalls
    /\ rpc' = [rpc EXCEPT ![w] = "invoke"]
    /\ wrapped' = [wrapped EXCEPT ![w] = isWrapped]
    /\ attempts' = [attempts EXCEPT ![w] = 0]
    /\ returned' = [returned EXCEPT ![w] = None]
    /\ calls' = calls + 1
    /\ leading' = [leading EXCEPT ![w] = 0]
    /\ followed' = [followed EXCEPT ![w] = None]
    /\ delays' = [delays EXCEPT ![w] = <<>>]
    /\ UNCHANGED environment
    /\ UNCHANGED <<gatedVars, waitVars, admissionVars, pageVars>>

\* one attempt: withRetry invokes the operation and decides what follows
InvokeOperation(w, kind) ==
    /\ rpc[w] = "invoke"
    /\ LET out == Operation(wrapped[w], kind)
           attempt == NextAttempt(attempts[w])
       IN /\ attempts' = [attempts EXCEPT ![w] = attempt]
          /\ IF ShouldRetry(out, attempt)
             THEN /\ rpc' = [rpc EXCEPT ![w] = "backoff"]
                  /\ returned' = returned
             ELSE IF out.channel = "throw"
             THEN /\ rpc' = [rpc EXCEPT ![w] = "threw"]
                  /\ returned' = [returned EXCEPT ![w] = out.kind]
             ELSE /\ rpc' = [rpc EXCEPT ![w] = "returned"]
                  /\ returned' = [returned EXCEPT ![w] = out.kind]
    /\ leading' = [leading EXCEPT ![w] =
                       IF followed[w] = None /\ kind = "transient" THEN @ + 1 ELSE @]
    /\ followed' = [followed EXCEPT ![w] =
                        IF followed[w] = None /\ kind # "transient" THEN kind ELSE @]
    /\ UNCHANGED <<wrapped, calls, environment, delays>>
    /\ UNCHANGED <<gatedVars, waitVars, admissionVars, pageVars>>

\* async-retry waits and then runs the operation again
BackOff(w) ==
    /\ rpc[w] = "backoff"
    /\ rpc' = [rpc EXCEPT ![w] = "invoke"]
    /\ delays' = [delays EXCEPT ![w] =
                      LatestTwo(Append(@, Timeout(environment, attempts[w])))]
    /\ UNCHANGED <<wrapped, attempts, returned, calls, leading, followed,
                   environment>>
    /\ UNCHANGED <<gatedVars, waitVars, admissionVars, pageVars>>

\* the caller has taken the result
FinishCall(w) ==
    /\ rpc[w] \in {"returned", "threw"}
    /\ rpc' = [rpc EXCEPT ![w] = "idle"]
    /\ wrapped' = [wrapped EXCEPT ![w] = FALSE]
    /\ attempts' = [attempts EXCEPT ![w] = 0]
    /\ returned' = [returned EXCEPT ![w] = None]
    /\ leading' = [leading EXCEPT ![w] = 0]
    /\ followed' = [followed EXCEPT ![w] = None]
    /\ delays' = [delays EXCEPT ![w] = <<>>]
    /\ UNCHANGED <<calls, environment>>
    /\ UNCHANGED <<gatedVars, waitVars, admissionVars, pageVars>>

NextRetry ==
    \/ \E w \in Callers, isWrapped \in BOOLEAN : CallWithRetry(w, isWrapped)
    \/ \E w \in Callers, kind \in QueryOutcomes : InvokeOperation(w, kind)
    \/ \E w \in Callers : BackOff(w)
    \/ \E w \in Callers : FinishCall(w)

RetrySpec == Init /\ [][NextRetry]_vars

\* the data access functions of lib/db-access.ts: every operation handed to
\* withRetry wraps its query in toResult
NextDbAccess ==
    \/ \E w \in Callers : CallWithRetry(w, TRUE)
    \/ \E w \in Callers, kind \in QueryOutcomes : InvokeOperation(w, kind)
    \/ \E w \in Callers : FinishCall(w)

DbAccessSpec == Init /\ [][NextDbAccess]_vars

\* withRetry in either build
InitBackoff ==
    InitData /\ signUpMode = BOTH_SIGN_UP /\ environment \in Environments

BackoffSpec == InitBackoff /\ [][NextRetry]_vars

\* every started attempt and every backoff wait comes to its end
RetryFairness ==
    \A w \in Callers :
        /\ WF_vars(\E kind \in QueryOutcomes : InvokeOperation(w, kind))
        /\ WF_vars(BackOff(w))

\* withRetry with a smaller number of calls in all
NextFairRetry ==
    \/ \E w \in Callers, isWrapped \in BOOLEAN :
           calls < MaxFairCalls /\ CallWithRetry(w, isWrapped)
    \/ \E w \in Callers, kind \in QueryOutcomes : InvokeOperation(w, kind)
    \/ \E w \in Callers : BackOff(w)
    \/ \E w \in Callers : FinishCall(w)

FairRetrySpec == Init /\ [][NextFairRetry]_vars /\ RetryFairness

(* ------------------- sign-up modes and abandoned requests --------------- *)

\* POST of the open sign-up form: handleSignUp creates the account
SubmitSignUp(email) ==
    /\ RouteHandler(signUpMode, "SIGN_UP") = "open"
    /\ email \notin users
    /\ users' = users \cup {email}
    /\ UNCHANGED <<singleUseCode, pc, reqCode, reqEmail, claimResult, signUpResult, signUpMessage,
                   submits, wins, losses, winner, signUpCalls, burned>>
    /\ UNCHANGED <<waitVars, retryVars, admissionVars, pageVars>>

\* a request to a sign-up path the mode registered no route for: 404
RequestNotFound(path) ==
    /\ RouteHandler(signUpMode, path) = "none"
    /\ path \notin notFound
    /\ notFound' = notFound \cup {path}
    /\ UNCHANGED <<signUpMode, abandons, abandonedClaim, abandonedJoin>>
    /\ UNCHANGED <<gatedVars, waitVars, retryVars, pageVars>>

\* the client of a gated sign-up goes away before the response: the request
\* is dropped where it stands, and nothing undoes what it has written
AbandonGatedSignUp(r) ==
    /\ pc[r] # "idle"
    /\ abandons' = abandons + 1
    /\ abandonedClaim' =
           IF claimResult[r] = Claimed
           THEN [abandonedClaim EXCEPT ![reqCode[r]] = reqEmail[r]]
           ELSE abandonedClaim
    /\ pc' = [pc EXCEPT ![r] = "idle"]
    /\ reqCode' = [reqCode EXCEPT ![r] = UnknownCode]
    /\ reqEmail' = [reqEmail EXCEPT ![r] = NoEmail]
    /\ claimResult' = [claimResult EXCEPT ![r] = None]
    /\ signUpResult' = [signUpResult EXCEPT ![r] = None]
    /\ signUpMessage' = [signUpMessage EXCEPT ![r] = None]
    /\ UNCHANGED <<singleUseCode, users, submits, wins, losses, winner,
                   signUpCalls, burned>>
    /\ UNCHANGED <<signUpMode, notFound, abandonedJoin>>
    /\ UNCHANGED <<waitVars, retryVars, pageVars>>

\* the client of an interest sign-up goes away before the response
AbandonInterestSignUp(j) ==
    /\ jpc[j] # "idle"
    /\ abandons' = abandons + 1
    /\ abandonedJoin' =
           IF joinResult[j] = JoinedWaitlist
           THEN abandonedJoin \cup {joinEmail[j]}
           ELSE abandonedJoin
    /\ jpc' = [jpc EXCEPT ![j] = "idle"]
    /\ joinEmail' = [joinEmail EXCEPT ![j] = NoEmail]
    /\ joinResult' = [joinResult EXCEPT ![j] = None]
    /\ insertOutcome' = [insertOutcome EXCEPT ![j] = None]
    /\ UNCHANGED <<interestedEmails, joinSubmits, joined, already, joinFailed>>
    /\ UNCHANGED <<signUpMode, notFound, abandonedClaim>>
    /\ UNCHANGED <<gatedVars, retryVars, pageVars>>

\* room for one more sign-up form, gated or interest
Admitting == submits + joinSubmits < MaxAdmissions

\* the worker in any sign-up mode, with clients that may go away
NextAdmission ==
    \/ \E r \in Requests, code \in CodeInputs, email \in Emails :
           Admitting /\ SubmitGatedSignUp(r, code, email)
    \/ \E r \in Requests : ClaimCode(r)
    \/ \E r \in Requests : SignUpEmailSucceeds(r)
    \/ \E r \in Requests : SignUpEmailFails(r)
    \/ \E r \in Requests : Respond(r)
    \/ \E j \in Joiners, email \in Emails :
           Admitting /\ SubmitInterestSignUp(j, email)
    \/ \E j \in Joiners : CheckFindsEmail(j)
    \/ \E j \in Joiners : CheckFindsNothing(j)
    \/ \E j \in Joiners : AddInterestedEmail(j)
    \/ \E j \in Joiners : RespondInterest(j)
    \/ \E email \in Emails : SubmitSignUp(email)
    \/ \E path \in SignUpPaths : RequestNotFound(path)
    \/ \E r \in Requests : AbandonGatedSignUp(r)
    \/ \E j \in Joiners : AbandonInterestSignUp(j)

AdmissionSpec == InitAdmission /\ [][NextAdmission]_vars

(* ------------------------------ the pages ------------------------------ *)

\* a value JavaScript takes as true in `if (v)` and keeps in `v || w`
Truthy(v) == v \notin {None, ""}

\* useLayout that leaves the cookies in place
useLayoutKeepsCookies(message, error, extraMessage) ==
    [message |-> IF Truthy(message) THEN message ELSE extraMessage,
     error |-> error,
     removed |-> {}]

\* useLayout: the alerts of the page and the cookies it removes, from the two
\* cookies of the request and the extraMessage argument
useLayout(message, error, extraMessage) ==
    LET shown == IF Truthy(message) THEN message ELSE extraMessage
    IN [message |-> shown,
        error |-> error,
        removed |-> (IF Truthy(shown) THEN {MESSAGE_FOUND} ELSE {})
                        \cup (IF Truthy(error) THEN {ERROR_FOUND} ELSE {})]

\* c.render(useLayout(c, page, extraMessage)): the response and the cookies
\* the browser is left with
Render(req, page, extraMessage) ==
    LET layout == useLayout(messageCookie, errorCookie, extraMessage)
    IN /\ request' = req
       /\ status' = "render"
       /\ target' = page
       /\ shownMessage' = layout.message
       /\ shownError' = layout.error
       /\ removed' = layout.removed
       /\ messageCookie' = IF MESSAGE_FOUND \in layout.removed THEN None ELSE messageCookie
       /\ errorCookie' = IF ERROR_FOUND \in layout.removed THEN None ELSE errorCookie

\* a redirect response: nothing is rendered, no cookie is removed
Redirect(req, code, location) ==
    /\ request' = req
    /\ status' = code
    /\ target' = location
    /\ shownMessage' = None
    /\ shownError' = None
    /\ removed' = {}

\* the context Better Auth's middleware sets for a request: user and session
\* of a live session, nothing otherwise
ContextOf(hasSession) == [user |-> hasSession, session |-> hasSession]

\* a middleware that lets every request through
signedInAccessOpen(ctx) == TRUE

\* signedInAccess: the request goes on when the context holds user and session
signedInAccess(ctx) == ctx.user /\ ctx.session

\* the sign-up page shows its form to everybody
SeesSignUpFormAlways(ctx) == TRUE

\* buildGatedInterestSignUp: the form is for requests without a user
SeesSignUpForm(ctx) == ~ctx.user

\* the fallback of sign-out leaves the session cookie in the browser
SessionAfterSignOutKept(how, hasSession) == how = "fallback" /\ hasSession

\* handle-sign-out: Better Auth's clear-cookie headers are forwarded, or the
\* cookie is cleared by hand; either way the browser holds no session cookie
SessionAfterSignOut(how, hasSession) == FALSE

\* sign-in: Better Auth creates the session, its cookie goes out on a redirect
\* (where the redirect leads is no part of the model)
SignIn ==
    /\ ~session
    /\ session' = TRUE
    /\ signedOut' = FALSE
    /\ Redirect("POST SIGN_IN", "redirect", None)
    /\ UNCHANGED <<messageCookie, errorCookie>>
    /\ UNCHANGED <<gatedVars, waitVars, retryVars, admissionVars>>

\* GET PATHS.PRIVATE
GetPrivate ==
    /\ IF signedInAccess(ContextOf(session))
       THEN Render("GET PRIVATE", "PRIVATE", None)
       ELSE /\ Redirect("GET PRIVATE", "redirect", "SIGN_IN")
            /\ errorCookie' = SIGN_IN_REQUIRED
            /\ messageCookie' = messageCookie
    /\ UNCHANGED <<session, signedOut>>
    /\ UNCHANGED <<gatedVars, waitVars, retryVars, admissionVars>>

\* GET PATHS.AUTH.SIGN_UP of the combined gated + interest page
GetSignUp ==
    /\ RouteHandler(signUpMode, "SIGN_UP") = "gated"
    /\ IF SeesSignUpForm(ContextOf(session))
       THEN Render("GET SIGN_UP", "SIGN_UP", None)
       ELSE /\ Redirect("GET SIGN_UP", "redirect", "PRIVATE")
            /\ messageCookie' = ALREADY_SIGNED_IN
            /\ errorCookie' = errorCookie
    /\ UNCHANGED <<session, signedOut>>
    /\ UNCHANGED <<gatedVars, waitVars, retryVars, admissionVars>>

\* POST /auth/sign-out: through Better Auth's sign-out, or through the manual
\* fallback when that gives no clear-cookie headers
PostSignOut(how) ==
    /\ how = "betterAuth" => session
    /\ session' = SessionAfterSignOut(how, session)
    /\ signedOut' = TRUE
    /\ Redirect("POST SIGN_OUT", "303", "SIGN_OUT")
    /\ UNCHANGED <<messageCookie, errorCookie>>
    /\ UNCHANGED <<gatedVars, waitVars, retryVars, admissionVars>>

\* GET of a page that any request may see: home, sign-in, the sign-out page
GetPage(page, extraMessage) ==
    /\ Render("GET " \o page, page, extraMessage)
    /\ UNCHANGED <<session, signedOut>>
    /\ UNCHANGED <<gatedVars, waitVars, retryVars, admissionVars>>

\* the response of the interest sign-up handler: back to sign-in with a message
InterestSignUpResponse ==
    /\ RouteHandler(signUpMode, "INTEREST_SIGN_UP") = "interest"
    /\ ~session
    /\ Redirect("POST INTEREST_SIGN_UP", "redirect", "SIGN_IN")
    /\ messageCookie' = INTEREST_RECORDED
    /\ UNCHANGED <<errorCookie, session, signedOut>>
    /\ UNCHANGED <<gatedVars, waitVars, retryVars, admissionVars>>

\* the response of a gated sign-up whose claim failed: back to the form, the
\* text in the error cookie or, on some paths, in the message cookie
RejectedSignUpResponse(asError) ==
    /\ RouteHandler(signUpMode, "SIGN_UP") = "gated"
    /\ ~session
    /\ Redirect("POST SIGN_UP", "redirect", "SIGN_UP")
    /\ IF asError
       THEN errorCookie' = INVALID_CODE /\ messageCookie' = messageCookie
       ELSE messageCookie' = INVALID_CODE /\ errorCookie' = errorCookie
    /\ UNCHANGED <<session, signedOut>>
    /\ UNCHANGED <<gatedVars, waitVars, retryVars, admissionVars>>

NextPage ==
    \/ SignIn
    \/ InterestSignUpResponse
    \/ \E asError \in BOOLEAN : RejectedSignUpResponse(asError)
    \/ GetPrivate
    \/ GetSignUp
    \/ \E how \in {"betterAuth", "fallback"} : PostSignOut(how)
    \/ \E page \in {"ROOT", "SIGN_IN", "SIGN_OUT"}, extraMessage \in {None, ExtraMessage} :
           GetPage(page, extraMessage)

PageSpec == Init /\ [][NextPage]_vars

(* ------------------------- the claims, C1 - C30 ------------------------ *)

\* the step in which request r's claimSingleUseCode call runs
ClaimStep(r) == pc[r] = "claim" /\ pc'[r] # "claim"

ClaimedIsTerminal ==
    [][/\ DOMAIN singleUseCode' = DOMAIN singleUseCode
       /\ \A c \in DOMAIN singleUseCode :
              singleUseCode[c] # NULL => singleUseCode'[c] = singleUseCode[c]]_vars

\* a code whose sign-up failed was claimed again by the other claimant and
\* still holds its first claimant
ClaimedIsTerminalWitness ==
    \E c \in Codes, r \in Requests :
        /\ burned[c]
        /\ reqCode[r] = c
        /\ claimResult[r] = AlreadyClaimedOrInvalid
        /\ reqEmail[r] # singleUseCode[c]
        /\ singleUseCode[c] = winner[c]

\* C3: once signUpEmail has failed after a successful claim the code stays
\* claimed, and every later claim of it returns AlreadyClaimedOrInvalid.
ClaimSurvivesSignUpFailure ==
    [][/\ \A c \in Codes : burned'[c] => singleUseCode'[c] # NULL
       /\ \A r \in Requests :
              (ClaimStep(r) /\ burned[reqCode[r]]) =>
                  claimResult'[r] = AlreadyClaimedOrInvalid]_vars

\* the claimant whose sign-up failed tried the same code again and was refused
ClaimSurvivesSignUpFailureWitness ==
    \E r \in Requests :
        /\ burned[reqCode[r]]
        /\ claimResult[r] = AlreadyClaimedOrInvalid
        /\ reqEmail[r] = winner[reqCode[r]]
        /\ signUpCalls[reqCode[r]] = 1

IdempotentReclaim ==
    [][\A r \in Requests :
           (ClaimStep(r) /\ wins[reqCode[r]] >= 1) =>
               /\ claimResult'[r] = AlreadyClaimedOrInvalid
               /\ wins'[reqCode[r]] = 1]_vars

\* the winner claimed its own code a second time and was refused
IdempotentReclaimWitness ==
    \E r \in Requests :
        /\ reqCode[r] \in Codes
        /\ claimResult[r] = AlreadyClaimedOrInvalid
        /\ reqEmail[r] = singleUseCode[reqCode[r]]
        /\ wins[reqCode[r]] = 1

OnUnknownCode(r) == claimResult[r] # None /\ reqCode[r] = UnknownCode

\* the claim of q ran on a row that another claimant holds
OnCodeOfAnother(q) ==
    /\ claimResult[q] # None
    /\ reqCode[q] \in Codes
    /\ singleUseCode[reqCode[q]] # reqEmail[q]

\* C7: a claim of a code that has no row returns AlreadyClaimedOrInvalid,
\* and a request on such a code ends exactly as a request on a code that
\* another claimant holds: same result, same place in the handler.
UnknownCodeIndistinguishable ==
    /\ \A r \in Requests :
           OnUnknownCode(r) => claimResult[r] = AlreadyClaimedOrInvalid
    /\ \A r, q \in Requests :
           (OnUnknownCode(r) /\ OnCodeOfAnother(q)) =>
               /\ claimResult[r] = claimResult[q]
               /\ pc[r] = pc[q]
               /\ signUpResult[r] = signUpResult[q]

\* one request claimed an unknown code, another a code somebody else holds
UnknownCodeIndistinguishableWitness ==
    \E r, q \in Requests :
        /\ OnUnknownCode(r)
        /\ OnCodeOfAnother(q)
        /\ claimResult[q] = AlreadyClaimedOrInvalid

JoinsInFlight(e) == {j \in Joiners : joinEmail[j] = e /\ jpc[j] \in {"check", "insert"}}

\* C8: once every waitlist request for an email has ended, exactly one of
\* them ended JoinedWaitlist and all the others AlreadyOnWaitlist.
WaitlistDedup ==
    \A e \in Emails :
        LET ended == joined[e] + already[e] + joinFailed[e]
        IN (ended >= 1 /\ JoinsInFlight(e) = {}) =>
               /\ joined[e] = 1
               /\ already[e] = ended - 1

\* C9: the waitlist never holds two rows of one email, and an email that is
\* on the list stays on it.
WaitlistUnique ==
    [][/\ \A e \in Emails : Cardinality(RowsWithEmail(interestedEmails', e)) <= 1
       /\ \A e \in Emails :
              checkInterestedEmailExists(interestedEmails, e) =>
                  checkInterestedEmailExists(interestedEmails', e)]_vars

\* two requests raced on one email: one row went in, the second insert was
\* stopped by the unique constraint
WaitlistUniqueWitness ==
    \E e \in Emails :
        /\ joined[e] = 1
        /\ joinFailed[e] >= 1
        /\ Cardinality(RowsWithEmail(interestedEmails, e)) = 1

\* C10: withRetry hands a transient failure that the operation returned as a
\* value back to its caller only when no attempt remains.
RetryOnReturnedFailure ==
    \A w \in Callers :
        (rpc[w] = "returned" /\ returned[w] = "transient") =>
            attempts[w] = MaxAttempts

\* the withRetry call of w is over: it returned a value or threw
Ended(w) == rpc[w] \in {"returned", "threw"}

\* C11: a withRetry call whose operation failed transiently k times, k below
\* MaxAttempts, and succeeds on its next run, ends with the success after
\* exactly k + 1 runs of the operation.
RetryUntilSuccess ==
    \A w \in Callers :
        (/\ Ended(w)
         /\ leading[w] < MaxAttempts
         /\ followed[w] \in {None, "ok"}) =>
            /\ returned[w] = "ok"
            /\ attempts[w] = leading[w] + 1

\* C12: a withRetry call whose operation failed transiently on every run ends
\* after exactly MaxAttempts runs, and what it hands back is that transient
\* failure.
RetryExhaustion ==
    \A w \in Callers :
        (Ended(w) /\ followed[w] = None) =>
            /\ attempts[w] = MaxAttempts
            /\ leading[w] = MaxAttempts
            /\ returned[w] = "transient"

\* C13: the run in which the operation returns a business outcome is the last
\* run of the call: withRetry returns that outcome at once, and an operation
\* whose first run returned it was run exactly once.
NoRetryOnBusinessOutcome ==
    [][\A w \in Callers :
          (followed[w] = None /\ followed'[w] = "business") =>
              /\ rpc'[w] = "returned"
              /\ returned'[w] = "business"
              /\ leading[w] = 0 => attempts'[w] = 1]_vars

\* a call ended with a business outcome after a single run of the operation
NoRetryOnBusinessOutcomeWitness ==
    \E w \in Callers :
        /\ rpc[w] = "returned"
        /\ returned[w] = "business"
        /\ attempts[w] = 1

EveryCallReturns ==
    \A w \in Callers : []<>(rpc[w] \notin {"invoke", "backoff"})

\* the operation threw a transient failure in every one of the MaxAttempts
\* runs, and the call is over
EveryCallReturnsWitness ==
    \E w \in Callers :
        /\ Ended(w)
        /\ leading[w] = MaxAttempts
        /\ attempts[w] = MaxAttempts

\* C16: a waitlist request ends with JoinedWaitlist exactly when its insert
\* put the row in, with AlreadyOnWaitlist when its insert was stopped by the
\* unique constraint on the email, and with a failure, never with
\* AlreadyOnWaitlist, when its insert failed for another reason.
JoinOutcomeClassification ==
    \A j \in Joiners :
        jpc[j] = "done" =>
            /\ joinResult[j] = JoinedWaitlist <=> insertOutcome[j] = "inserted"
            /\ insertOutcome[j] = "unique" => joinResult[j] = AlreadyOnWaitlist
            /\ insertOutcome[j] = "other" => joinResult[j] = StorageFailure
            /\ joinResult[j] = AlreadyOnWaitlist => insertOutcome[j] # "other"

CommitSurvivesAbandon ==
    [][/\ abandons' # abandons =>
              /\ singleUseCode' = singleUseCode
              /\ interestedEmails' = interestedEmails
              /\ users' = users
       /\ \A c \in Codes :
              abandonedClaim'[c] # NoEmail => singleUseCode'[c] = abandonedClaim'[c]
       /\ \A e \in abandonedJoin' :
              checkInterestedEmailExists(interestedEmails', e)]_vars

\* a gated sign-up was abandoned after its claim and an interest sign-up after
\* its insert: the code is held by the claimant, the email is on the waitlist
CommitSurvivesAbandonWitness ==
    /\ \E c \in Codes :
           /\ abandonedClaim[c] # NoEmail
           /\ singleUseCode[c] = abandonedClaim[c]
    /\ \E e \in abandonedJoin : checkInterestedEmailExists(interestedEmails, e)

\* C20: a sign-up handler acts only in a mode that registers its route: codes
\* are claimed in GATED_SIGN_UP and BOTH_SIGN_UP only, waitlist rows are added
\* in INTEREST_SIGN_UP and BOTH_SIGN_UP only, accounts are created in no mode
\* without a sign-up handler, and in NO_SIGN_UP no request creates an account,
\* claims a code or adds a waitlist entry.
SignUpModeGating ==
    /\ signUpMode = NO_SIGN_UP =>
           /\ users = {}
           /\ \A c \in Codes : singleUseCode[c] = NULL
           /\ interestedEmails = <<>>
           /\ submits = 0
           /\ joinSubmits = 0
    /\ (\E c \in Codes : singleUseCode[c] # NULL) =>
           signUpMode \in {GATED_SIGN_UP, BOTH_SIGN_UP}
    /\ interestedEmails # <<>> => signUpMode \in {INTEREST_SIGN_UP, BOTH_SIGN_UP}
    /\ users # {} => signUpMode \in {OPEN_SIGN_UP, GATED_SIGN_UP, BOTH_SIGN_UP}

\* in NO_SIGN_UP both sign-up paths were requested and both were answered 404
SignUpModeGatingWitness ==
    /\ signUpMode = NO_SIGN_UP
    /\ notFound = SignUpPaths

\* C21: the private page is rendered only in answer to a GET of the private
\* path whose context holds user and session; a GET of the private path
\* without them is answered by a redirect to sign-in that carries the error
\* message.
ProtectedRoute ==
    /\ (status = "render" /\ target = "PRIVATE") =>
           (request = "GET PRIVATE" /\ session)
    /\ request = "GET PRIVATE" =>
           IF session
           THEN status = "render" /\ target = "PRIVATE"
           ELSE /\ status = "redirect"
                /\ target = "SIGN_IN"
                /\ errorCookie = SIGN_IN_REQUIRED

\* nobody ever signed out, the private path was asked for without a session
\* and the answer was the redirect to sign-in
ProtectedRouteWitness ==
    /\ request = "GET PRIVATE"
    /\ ~session
    /\ ~signedOut
    /\ status = "redirect"
    /\ target = "SIGN_IN"

\* C25: a page render that finds a message cookie (an error cookie) shows its
\* text, before any extraMessage, removes the cookie in the same response and
\* leaves the browser without it, so a render that follows a render shows no
\* cookie text.
FlashShownOnce ==
    [][status' = "render" =>
          /\ Truthy(messageCookie) =>
                 /\ shownMessage' = messageCookie
                 /\ MESSAGE_FOUND \in removed'
                 /\ messageCookie' = None
          /\ Truthy(errorCookie) =>
                 /\ shownError' = errorCookie
                 /\ ERROR_FOUND \in removed'
                 /\ errorCookie' = None
          /\ status = "render" =>
                 /\ shownMessage' \in {None, ExtraMessage}
                 /\ shownError' = None]_vars

\* the private page showed the message of the redirect that led to it and
\* removed the cookie
FlashShownOnceWitness ==
    /\ status = "render"
    /\ shownMessage = ALREADY_SIGNED_IN
    /\ MESSAGE_FOUND \in removed
    /\ messageCookie = None

\* C26: a GET of the sign-up path with a user in context is answered by a
\* redirect to the private path that carries ALREADY_SIGNED_IN, and the
\* sign-up form is rendered only for a request without a user.
SignedInSeesNoSignUpForm ==
    /\ (status = "render" /\ target = "SIGN_UP") =>
           (request = "GET SIGN_UP" /\ ~session)
    /\ request = "GET SIGN_UP" =>
           IF session
           THEN /\ status = "redirect"
                /\ target = "PRIVATE"
                /\ messageCookie = ALREADY_SIGNED_IN
           ELSE status = "render" /\ target = "SIGN_UP"

\* a signed-in user asked for the sign-up page and was sent to the private page
SignedInSeesNoSignUpFormWitness ==
    /\ request = "GET SIGN_UP"
    /\ session
    /\ status = "redirect"
    /\ target = "PRIVATE"

BackoffGrows ==
    /\ \A w \in Callers :
           /\ \A i \in 1..(Len(delays[w]) - 1) : delays[w][i + 1] > delays[w][i]
           /\ attempts[w] = 1 /\ Len(delays[w]) = 1 =>
                  delays[w][1] = IF environment = "production" THEN 200 ELSE 20
           /\ environment = "production" =>
                  \A i \in 1..Len(delays[w]) : delays[w][i] > MinTimeout("development")

\* a call of the production build waited twice, the second wait the longer one
BackoffGrowsWitness ==
    \E w \in Callers :
        /\ environment = "production"
        /\ Len(delays[w]) = 2
        /\ delays[w][1] = ProdMinTimeout
        /\ delays[w][2] > delays[w][1]

\* C24: a withRetry call that has ended ran its operation at least once, no
\* call runs it more than maxAttempts times, a new call counts from zero, and
\* a step of one call leaves the attempt count of every other call as it was.
BoundedAttempts ==
    [][\A w \in Callers :
          /\ attempts'[w] <= MaxAttempts
          /\ rpc'[w] \in {"returned", "threw"} => attempts'[w] >= 1
          /\ (rpc[w] = "idle" /\ rpc'[w] = "invoke") => attempts'[w] = 0
          /\ attempts'[w] # attempts[w] =>
                 \A v \in Callers \ {w} : attempts'[v] = attempts[v]]_vars

\* two calls are under way at once, one at its last attempt and one at its
\* first
BoundedAttemptsWitness ==
    \E w, v \in Callers :
        /\ rpc[w] = "threw"
        /\ attempts[w] = MaxAttempts
        /\ rpc[v] = "invoke"
        /\ attempts[v] = 0

\* C22: the text shown for a failed sign-up is the generic message, so any
\* two failed sign-ups, whatever their raw errors and whether or not their
\* codes exist, show the same text.
GenericFailureMessage ==
    /\ \A r \in Requests :
           signUpResult[r] = "failed" => signUpMessage[r] = REGISTRATION_GENERIC_ERROR
    /\ \A r, q \in Requests :
           (signUpResult[r] = "failed" /\ signUpResult[q] = "failed") =>
               signUpMessage[r] = signUpMessage[q]

\* C28: a code holds the email x only if a claim call for that code and x
\* returned Claimed, also when a claim's reply can be lost after its UPDATE
\* committed.
ClaimantWasTold ==
    \A code \in Codes :
        singleUseCode[code] # NULL =>
            /\ wins[code] >= 1
            /\ winner[code] = singleUseCode[code]

\* the claim call of request r returns in this step
ClaimReturns(r) == pc[r] = "claim" /\ claimResult[r] = None /\ claimResult'[r] # None

\* the interest sign-up of j comes to its result in this step
JoinReturns(j) == jpc[j] # "idle" /\ joinResult[j] = None /\ joinResult'[j] # None

LosingCallChangesNothing ==
    [][/\ \A r \in Requests :
              (ClaimReturns(r) /\ claimResult'[r] = AlreadyClaimedOrInvalid) =>
                  /\ singleUseCode' = singleUseCode
                  /\ interestedEmails' = interestedEmails
       /\ \A j \in Joiners :
              (JoinReturns(j) /\ joinResult'[j] = AlreadyOnWaitlist) =>
                  /\ singleUseCode' = singleUseCode
                  /\ interestedEmails' = interestedEmails]_vars

\* a claim lost against the email that holds the code, and the code still
\* holds that email
LosingCallChangesNothingWitness ==
    \E r \in Requests :
        /\ claimResult[r] = AlreadyClaimedOrInvalid
        /\ reqCode[r] \in Codes
        /\ singleUseCode[reqCode[r]] \notin {NULL, reqEmail[r]}

====
